---- MODULE Spec2Model ----
(***************************************************************************)
(* A model of bot.py (Atomic Coach): the per-user JSON record store, the   *)
(* two ConversationHandlers registered in main() together with the general *)
(* message handler, and the message cycle of handle_message.               *)
(*                                                                         *)
(* Text is a sequence of characters.  Literal fragments of the f-strings   *)
(* of the source are single atoms of such a sequence.                      *)
(***************************************************************************)
EXTENDS Integers, Sequences, FiniteSets, TLC

VARIABLES
  store,    \* the file of each user under USER_DATA_DIR
  onb,      \* each user's state in onboarding_conv
  plan,     \* each user's state in plan_conv
  last,     \* the handler run that completed last, when updates are handled one
            \* at a time: its update, its replies and its request to the model
  saving,   \* the save_user_data call in progress, when the file is written in steps
  tasks,    \* the handler coroutines in flight, when updates are handled concurrently
  ref       \* each user's file, had each handler that wrote it run to completion
            \* on its own, in the order in which the handlers wrote

vars == <<store, onb, plan, last, saving, tasks, ref>>

-----------------------------------------------------------------------------
(* Bounds of the model *)

\* the longest persisted history a sequential run builds
MaxHistory == 14

\* the longest persisted history of the runs in which a save can be cut short
MaxCrashHistory == 4

\* the longest history a handler loads when handlers run concurrently
MaxConcHistory == 4

-----------------------------------------------------------------------------
(* Program constants *)

CONVERSATION_MEMORY_LENGTH == 12
ASKING_NAME == 1
ASKING_PLAN_TYPE == 2
\* ConversationHandler.END, returned by start, received_name and cancel
END == -1

Users == {"u1", "u2"}

\* the users whose events the sequential specification delivers
SeqUsers == {"u1"}

\* update.message.text of a text update: filters.TEXT admits any non-empty
\* string, ~filters.COMMAND any that does not start with a command
Texts == { <<" ", "A", " ">>, <<" ">> }

Commands == {"start", "cancel", "create_plan"}

\* what the completion service does with one request: an answer, or an error
Outcomes == { [ok |-> TRUE, content |-> <<"R">>], [ok |-> FALSE, content |-> <<>>] }

-----------------------------------------------------------------------------
(* Python values *)

\* None, and a str
None == [isNone |-> TRUE, s |-> <<>>]

Str(s) == [isNone |-> FALSE, s |-> s]

\* truth value of `user_data.get("first_name")`: None and "" are false
Truthy(v) == ~v.isNone /\ v.s # <<>>

\* the characters str.strip() removes
IsSpace(c) == c \in {" ", "\t", "\n"}

RECURSIVE lstrip(_)
lstrip(s) == IF s # <<>> /\ IsSpace(Head(s)) THEN lstrip(Tail(s)) ELSE s

RECURSIVE rstrip(_)
rstrip(s) ==
  IF s # <<>> /\ IsSpace(s[Len(s)]) THEN rstrip(SubSeq(s, 1, Len(s) - 1)) ELSE s

\* str.strip()
strip(s) == rstrip(lstrip(s))

\* (mutant) a slice that keeps one element too many
LastN_one_more(lst, n) ==
  IF Len(lst) <= n + 1 THEN lst ELSE SubSeq(lst, Len(lst) - n, Len(lst))

\* lst[-n:]
LastN(lst, n) ==
  IF Len(lst) <= n THEN lst ELSE SubSeq(lst, Len(lst) - n + 1, Len(lst))

-----------------------------------------------------------------------------
(* The user record store: one file per user id *)

NoFile == [exists |-> FALSE, chunks |-> <<>>]

\* (mutant) every user is given the same file
filepath_shared(user_id) == "u1"

\* os.path.join(USER_DATA_DIR, f"{user_id}.json"): one file per user id
filepath(user_id) == user_id

\* the default record of load_user_data
DefaultData == [first_name |-> None, history |-> <<>>]

\* json.dump(data, f): the chunks the encoder writes to the file, in order
json_dump(data) ==
  << [tok |-> "{",          val |-> <<>>],
     [tok |-> "first_name", val |-> <<data.first_name>>],
     [tok |-> "history",    val |-> data.history],
     [tok |-> "}",          val |-> <<>>] >>

\* whether json.load accepts the content of a file
json_valid(chunks) ==
  /\ Len(chunks) = 4
  /\ chunks[1].tok = "{"
  /\ chunks[2].tok = "first_name"
  /\ chunks[3].tok = "history"
  /\ chunks[4].tok = "}"

\* json.load(f) of an accepted content
json_load(chunks) ==
  [first_name |-> chunks[2].val[1], history |-> chunks[3].val]

\* load_user_data: the default record when there is no file, the decoded
\* record when there is one, and the JSONDecodeError of json.load otherwise
load_user_data(file) ==
  IF file.exists
    THEN IF json_valid(file.chunks)
           THEN [raised |-> FALSE, data |-> json_load(file.chunks)]
           ELSE [raised |-> TRUE, data |-> DefaultData]
    ELSE [raised |-> FALSE, data |-> DefaultData]

\* open(filepath, 'w'): the file is created, or truncated to nothing
open_w(file) == [exists |-> TRUE, chunks |-> <<>>]

\* f.write(chunk)
write(file, chunk) == [file EXCEPT !.chunks = Append(@, chunk)]

RECURSIVE write_all(_, _)
write_all(file, chunks) ==
  IF chunks = <<>> THEN file ELSE write_all(write(file, Head(chunks)), Tail(chunks))

\* save_user_data, run to completion: open(filepath, 'w') and json.dump
save_user_data(file, data) == write_all(open_w(file), json_dump(data))

-----------------------------------------------------------------------------
(* The persona prompt and the completion gateway *)

Turn(role, content) == [role |-> role, content |-> content]

\* SYSTEM_PROMPT: a fixed text, holding the characters {user_name} in its
\* Username Protocol
SYSTEM_PROMPT ==
  << "# CORE IDENTITY ... 4. **Username Protocol:** You are communicating with ",
     "{user_name}",
     ". Use their name VERY SPARINGLY ... 8. **Privacy Protocol:** ..." >>

system_message(user_name) ==
  Turn("system",
       <<"You are communicating with a user named ">> \o user_name
         \o <<". ">> \o SYSTEM_PROMPT)

\* (mutant) the system entry is put after the conversation turns
messages_to_send_system_last(history, user_name) ==
  history \o <<system_message(user_name)>>

messages_to_send(history, user_name) == <<system_message(user_name)>> \o history

APOLOGY ==
  << "Apologies, my systems are under a bit of strain right now. Please try your query again in a moment." >>

\* (mutant) a failed call is made a second time
chat_completions_create_retried(outcome) == IF outcome.ok THEN 1 ELSE 2

\* how often one get_ai_response_with_context call invokes
\* client.chat.completions.create: once, inside try; the except branch only
\* prints and returns
chat_completions_create(outcome) == 1

\* (mutant) the except branch returns nothing
get_ai_response_no_fallback(history, user_name, outcome) == outcome.content

\* get_ai_response_with_context: the answer of the service, or the apology
\* when the call raises
get_ai_response_with_context(history, user_name, outcome) ==
  IF outcome.ok THEN outcome.content ELSE APOLOGY

-----------------------------------------------------------------------------
(* Replies *)

WelcomeBack(name) ==
  <<"Hey ">> \o name \o <<", welcome back! What's on your mind today?">>

AskName ==
  << "Welcome! I'm your evidence-based AI Coach for all things fitness, nutrition, and habit-building. May I know your first name?" >>

NiceToMeet(name) ==
  <<"Nice to meet you, ">> \o name \o <<"! How can I help you today?">>

UseStart ==
  << "Welcome! Please use the /start command to set up your profile first." >>

Cancelled == << "Process cancelled. Let me know if you need anything else!" >>

PlanPrompt ==
  << "Awesome! I can create a personalized plan for you. To get started, what are you looking for?\n\nYou can choose: **Diet Plan**, **Workout Plan**, or **Both**." >>

-----------------------------------------------------------------------------
(* Routing of an update, as main() registers the handlers *)

\* (mutant) the general text handler is registered before plan_conv
RouteText_general_first(o, p) ==
  IF o = ASKING_NAME THEN [conv |-> "onboarding", handler |-> "received_name"]
  ELSE [conv |-> "none", handler |-> "handle_message"]

\* the handler that takes a text update of a user whose onboarding
\* conversation is in state o and whose plan conversation is in state p
RouteText(o, p) ==
  IF o = ASKING_NAME THEN [conv |-> "onboarding", handler |-> "received_name"]
  ELSE IF p = ASKING_PLAN_TYPE THEN [conv |-> "plan", handler |-> "create_plan_start"]
  ELSE [conv |-> "none", handler |-> "handle_message"]

\* the handler that takes a command update
RouteCommand(o, p, cmd) ==
  IF o = END /\ cmd = "start" THEN [conv |-> "onboarding", handler |-> "start"]
  ELSE IF o = ASKING_NAME /\ cmd = "cancel" THEN [conv |-> "onboarding", handler |-> "cancel"]
  ELSE IF p = END /\ cmd = "create_plan" THEN [conv |-> "plan", handler |-> "create_plan_start"]
  ELSE IF p = ASKING_PLAN_TYPE /\ cmd = "cancel" THEN [conv |-> "plan", handler |-> "cancel"]
  ELSE [conv |-> "none", handler |-> "none"]

-----------------------------------------------------------------------------
(* What the handlers compute *)

\* (mutant) the guard never fires
no_first_name_never(user_data) == FALSE

\* (mutant) the guard tests `is None` and lets an empty name pass
no_first_name_none_only(user_data) == user_data.first_name.isNone

\* `not user_data.get("first_name")`, the guard of handle_message
no_first_name(user_data) == ~Truthy(user_data.first_name)

\* (mutant) the record is saved before the assistant turn is appended
message_cycle_save_early(user_data, user_message, outcome) ==
  LET h1  == Append(user_data.history, Turn("user", user_message))
      win == LastN(h1, CONVERSATION_MEMORY_LENGTH)
  IN  [ user_data |-> [user_data EXCEPT !.history = h1],
        window    |-> win,
        request   |-> messages_to_send(win, user_data.first_name.s),
        reply     |-> get_ai_response_with_context(win, user_data.first_name.s, outcome),
        calls     |-> chat_completions_create(outcome) ]

\* (mutant) the window is taken before the new user turn is appended
message_cycle_window_first(user_data, user_message, outcome) ==
  LET h1  == Append(user_data.history, Turn("user", user_message))
      win == Append(LastN(user_data.history, CONVERSATION_MEMORY_LENGTH),
                    Turn("user", user_message))
      ai  == get_ai_response_with_context(win, user_data.first_name.s, outcome)
  IN  [ user_data |-> [user_data EXCEPT !.history = Append(h1, Turn("assistant", ai))],
        window    |-> win,
        request   |-> messages_to_send(win, user_data.first_name.s),
        reply     |-> ai,
        calls     |-> chat_completions_create(outcome) ]

\* (mutant) the assistant turn is appended only when the service answered
message_cycle_skip_failed(user_data, user_message, outcome) ==
  LET h1  == Append(user_data.history, Turn("user", user_message))
      win == LastN(h1, CONVERSATION_MEMORY_LENGTH)
      ai  == get_ai_response_with_context(win, user_data.first_name.s, outcome)
  IN  [ user_data |-> [user_data EXCEPT !.history =
                         IF outcome.ok THEN Append(h1, Turn("assistant", ai)) ELSE h1],
        window    |-> win,
        request   |-> messages_to_send(win, user_data.first_name.s),
        reply     |-> ai,
        calls     |-> chat_completions_create(outcome) ]

\* the part of handle_message after the first_name guard
message_cycle(user_data, user_message, outcome) ==
  LET h1  == Append(user_data.history, Turn("user", user_message))
      win == LastN(h1, CONVERSATION_MEMORY_LENGTH)
      req == messages_to_send(win, user_data.first_name.s)
      ai  == get_ai_response_with_context(win, user_data.first_name.s, outcome)
      h2  == Append(h1, Turn("assistant", ai))
  IN  [ user_data |-> [user_data EXCEPT !.history = h2],
        window    |-> win,
        request   |-> req,
        reply     |-> ai,
        calls     |-> chat_completions_create(outcome) ]

\* (mutant) start asks for the name whatever the record holds
start_return_always_asks(user_data) == ASKING_NAME

\* the conversation state start returns: END for a record with a first_name,
\* ASKING_NAME otherwise
start_return(user_data) ==
  IF Truthy(user_data.first_name) THEN END ELSE ASKING_NAME

\* (mutant) the text is taken as the name without trimming
typed_name_raw(text) == text

\* `update.message.text.strip()`
typed_name(text) == strip(text)

\* what handle_message, run to completion, leaves in the user's file
handle_message_file(file, text, outcome) ==
  LET ld == load_user_data(file)
  IN  IF ld.raised \/ no_first_name(ld.data)
        THEN file
        ELSE save_user_data(file, message_cycle(ld.data, text, outcome).user_data)

\* what received_name leaves in the user's file
received_name_file(file, text) ==
  save_user_data(file, [first_name |-> Str(typed_name(text)), history |-> <<>>])

\* the record of a handler run that `last` keeps
Ran(op, conv, u, cmd, text) ==
  [ op |-> op, conv |-> conv, user |-> u, cmd |-> cmd, text |-> text,
    replies |-> <<>>, calls |-> 0, failed |-> FALSE, raised |-> FALSE,
    window |-> <<>>, request |-> <<>> ]

\* no save_user_data call is in progress
NotSaving ==
  [ active |-> FALSE, user |-> "u1", old |-> NoFile, data |-> DefaultData,
    written |-> 0, then |-> Ran("init", "none", "u1", "", <<>>) ]

\* the coroutines that can be in flight at once
TaskIds == {"t1", "t2"}

\* a coroutine slot that has run nothing yet
NoTask ==
  [ pc |-> "free", user |-> "u1", run |-> Ran("init", "none", "u1", "", <<>>),
    ret |-> END, user_data |-> DefaultData, saved |-> <<>> ]

-----------------------------------------------------------------------------
(* Handlers, each run to completion *)

Init ==
  /\ store = [u \in Users |-> NoFile]
  /\ onb   = [u \in Users |-> END]
  /\ plan  = [u \in Users |-> END]
  /\ last  = Ran("init", "none", "u1", "", <<>>)
  /\ saving = NotSaving
  /\ tasks = [i \in TaskIds |-> NoTask]
  /\ ref = [u \in Users |-> NoFile]

start(u) ==
  /\ ~saving.active /\ UNCHANGED <<saving, tasks, ref>>
  /\ RouteCommand(onb[u], plan[u], "start").handler = "start"
  /\ LET ld == load_user_data(store[filepath(u)])
         r  == Ran("start", "onboarding", u, "start", <<>>)
     IN  IF ld.raised
           THEN /\ last' = [r EXCEPT !.raised = TRUE]
                /\ UNCHANGED onb
         ELSE IF Truthy(ld.data.first_name)
           THEN /\ last' = [r EXCEPT !.replies = <<WelcomeBack(ld.data.first_name.s)>>]
                /\ onb' = [onb EXCEPT ![u] = start_return(ld.data)]
         ELSE /\ last' = [r EXCEPT !.replies = <<AskName>>]
              /\ onb' = [onb EXCEPT ![u] = start_return(ld.data)]
  /\ UNCHANGED <<store, plan>>

received_name(u, text) ==
  /\ ~saving.active /\ UNCHANGED <<saving, tasks, ref>>
  /\ RouteText(onb[u], plan[u]).handler = "received_name"
  /\ LET name == typed_name(text)
     IN  /\ store' = [store EXCEPT ![filepath(u)] = received_name_file(@, text)]
         /\ last' = [Ran("received_name", "onboarding", u, "", text)
                       EXCEPT !.replies = <<NiceToMeet(name)>>]
  /\ onb' = [onb EXCEPT ![u] = END]
  /\ UNCHANGED plan

handle_message(u, text, outcome) ==
  /\ ~saving.active /\ UNCHANGED <<saving, tasks, ref>>
  /\ RouteText(onb[u], plan[u]).handler = "handle_message"
  /\ LET ld == load_user_data(store[filepath(u)])
         r  == Ran("handle_message", "none", u, "", text)
     IN  IF ld.raised
           THEN /\ last' = [r EXCEPT !.raised = TRUE]
                /\ UNCHANGED store
         ELSE IF no_first_name(ld.data)
           THEN /\ last' = [r EXCEPT !.replies = <<UseStart>>]
                /\ UNCHANGED store
         ELSE LET c == message_cycle(ld.data, text, outcome)
              IN  /\ Len(ld.data.history) + 2 <= MaxHistory
                  /\ store' = [store EXCEPT ![filepath(u)] =
                                 handle_message_file(@, text, outcome)]
                  /\ last' = [r EXCEPT !.replies = <<c.reply>>,
                                       !.calls = c.calls,
                                       !.failed = ~outcome.ok,
                                       !.window = c.window,
                                       !.request = c.request]
  /\ UNCHANGED <<onb, plan>>

\* (mutant) cancel also removes the user's record
cancel_forgets(u) ==
  LET rt == RouteCommand(onb[u], plan[u], "cancel")
  IN  /\ ~saving.active /\ UNCHANGED <<saving, tasks, ref>>
      /\ rt.handler = "cancel"
      /\ last' = [Ran("cancel", rt.conv, u, "cancel", <<>>)
                    EXCEPT !.replies = <<Cancelled>>]
      /\ IF rt.conv = "onboarding"
           THEN onb' = [onb EXCEPT ![u] = END] /\ UNCHANGED plan
           ELSE plan' = [plan EXCEPT ![u] = END] /\ UNCHANGED onb
      /\ store' = [store EXCEPT ![filepath(u)] = NoFile]

cancel(u) ==
  LET rt == RouteCommand(onb[u], plan[u], "cancel")
  IN  /\ ~saving.active /\ UNCHANGED <<saving, tasks, ref>>
      /\ rt.handler = "cancel"
      /\ last' = [Ran("cancel", rt.conv, u, "cancel", <<>>)
                    EXCEPT !.replies = <<Cancelled>>]
      /\ IF rt.conv = "onboarding"
           THEN onb' = [onb EXCEPT ![u] = END] /\ UNCHANGED plan
           ELSE plan' = [plan EXCEPT ![u] = END] /\ UNCHANGED onb
      /\ UNCHANGED store

\* create_plan_start as the entry point of plan_conv (/create_plan)
create_plan_start(u) ==
  /\ ~saving.active /\ UNCHANGED <<saving, tasks, ref>>
  /\ RouteCommand(onb[u], plan[u], "create_plan").handler = "create_plan_start"
  /\ last' = [Ran("create_plan_start", "plan", u, "create_plan", <<>>)
                EXCEPT !.replies = <<PlanPrompt>>]
  /\ plan' = [plan EXCEPT ![u] = ASKING_PLAN_TYPE]
  /\ UNCHANGED <<store, onb>>

\* create_plan_start as the placeholder handler of state ASKING_PLAN_TYPE
plan_type_text(u, text) ==
  /\ ~saving.active /\ UNCHANGED <<saving, tasks, ref>>
  /\ RouteText(onb[u], plan[u]).handler = "create_plan_start"
  /\ last' = [Ran("create_plan_start", "plan", u, "", text)
                EXCEPT !.replies = <<PlanPrompt>>]
  /\ plan' = [plan EXCEPT ![u] = ASKING_PLAN_TYPE]
  /\ UNCHANGED <<store, onb>>

\* a command that no registered handler takes
unhandled(u, cmd) ==
  /\ ~saving.active /\ UNCHANGED <<saving, tasks, ref>>
  /\ RouteCommand(onb[u], plan[u], cmd).handler = "none"
  /\ last' = Ran("none", "none", u, cmd, <<>>)
  /\ UNCHANGED <<store, onb, plan>>

\* one update of user u, handled to completion
Deliver(u) ==
  \/ start(u)
  \/ \E t \in Texts : received_name(u, t)
  \/ \E t \in Texts, o \in Outcomes : handle_message(u, t, o)
  \/ cancel(u)
  \/ create_plan_start(u)
  \/ \E t \in Texts : plan_type_text(u, t)
  \/ \E c \in Commands : unhandled(u, c)

Next == \E u \in SeqUsers : Deliver(u)

\* updates of one user, processed one at a time
Spec == Init /\ [][Next]_vars

-----------------------------------------------------------------------------
(* The same handlers with save_user_data written to the file in steps, and  *)
(* the process stopping in the middle of a save                            *)

\* save_user_data up to and including open(filepath, 'w'); `then` is the
\* rest of the handler
BeginSave(u, data, then) ==
  /\ store' = [store EXCEPT ![filepath(u)] = open_w(store[filepath(u)])]
  /\ saving' = [ active |-> TRUE, user |-> u, old |-> store[filepath(u)], data |-> data,
                 written |-> 0, then |-> then ]

\* received_name up to the open() of its save
received_name_open(u, text) ==
  /\ UNCHANGED <<tasks, ref>>
  /\ ~saving.active
  /\ RouteText(onb[u], plan[u]).handler = "received_name"
  /\ LET name      == typed_name(text)
         user_data == [first_name |-> Str(name), history |-> <<>>]
     IN  BeginSave(u, user_data,
                   [Ran("received_name", "onboarding", u, "", text)
                      EXCEPT !.replies = <<NiceToMeet(name)>>])
  /\ UNCHANGED <<onb, plan, last>>

\* handle_message up to the open() of its save, or to its end when it
\* raises or returns at the guard
handle_message_open(u, text, outcome) ==
  /\ UNCHANGED <<tasks, ref>>
  /\ ~saving.active
  /\ RouteText(onb[u], plan[u]).handler = "handle_message"
  /\ LET ld == load_user_data(store[filepath(u)])
         r  == Ran("handle_message", "none", u, "", text)
     IN  IF ld.raised
           THEN /\ last' = [r EXCEPT !.raised = TRUE]
                /\ UNCHANGED <<store, saving>>
         ELSE IF no_first_name(ld.data)
           THEN /\ last' = [r EXCEPT !.replies = <<UseStart>>]
                /\ UNCHANGED <<store, saving>>
         ELSE LET c == message_cycle(ld.data, text, outcome)
              IN  /\ Len(ld.data.history) + 2 <= MaxCrashHistory
                  /\ BeginSave(u, c.user_data,
                               [r EXCEPT !.replies = <<c.reply>>,
                                         !.calls = c.calls,
                                         !.failed = ~outcome.ok,
                                         !.window = c.window,
                                         !.request = c.request])
                  /\ UNCHANGED last
  /\ UNCHANGED <<onb, plan>>

\* json.dump writes its next chunk to the file
save_write ==
  /\ UNCHANGED <<tasks, ref>>
  /\ saving.active
  /\ saving.written < Len(json_dump(saving.data))
  /\ store' = [store EXCEPT ![filepath(saving.user)] =
                 write(@, json_dump(saving.data)[saving.written + 1])]
  /\ saving' = [saving EXCEPT !.written = @ + 1]
  /\ UNCHANGED <<onb, plan, last>>

\* the file is closed and the handler runs to its end: it replies and returns
save_close ==
  /\ UNCHANGED <<tasks, ref>>
  /\ saving.active
  /\ saving.written = Len(json_dump(saving.data))
  /\ saving' = [saving EXCEPT !.active = FALSE]
  /\ last' = saving.then
  /\ onb' = IF saving.then.op = "received_name"
              THEN [onb EXCEPT ![saving.user] = END]
              ELSE onb
  /\ UNCHANGED <<store, plan>>

\* the process stops during a save and is started again: the files stay as
\* they are, the conversation states, kept in memory only, are gone
crash ==
  /\ UNCHANGED <<tasks, ref>>
  /\ saving.active
  /\ saving' = [saving EXCEPT !.active = FALSE]
  /\ onb' = [u \in Users |-> END]
  /\ plan' = [u \in Users |-> END]
  /\ last' = Ran("crash", "none", saving.user, "", <<>>)
  /\ UNCHANGED store

NextCrash ==
  \/ \E u \in SeqUsers :
       \/ start(u)
       \/ cancel(u)
       \/ create_plan_start(u)
       \/ \E t \in Texts : plan_type_text(u, t)
       \/ \E c \in Commands : unhandled(u, c)
       \/ \E t \in Texts : received_name_open(u, t)
       \/ \E t \in Texts, o \in Outcomes : handle_message_open(u, t, o)
  \/ save_write
  \/ save_close
  \/ crash

\* updates of one user, processed one at a time, in a process that can stop
\* while it saves
SpecCrash == Init /\ [][NextCrash]_vars

-----------------------------------------------------------------------------
(* The handlers as coroutines: each runs from one await to the next in one  *)
(* step, and the coroutines of several updates are in flight at once.       *)
(* A ConversationHandler sets the state a callback returns when the         *)
(* callback has returned.                                                   *)

InFlight(i) == tasks[i].pc \in {"typing", "reply"}

\* task i starts a handler for user u and runs it to its first await;
\* pc says where it waits, run what it has done, ret the state it returns
Launch(i, u, pc, run, ret, user_data) ==
  /\ tasks' = [tasks EXCEPT ![i] =
                 [ pc |-> pc, user |-> u, run |-> run, ret |-> ret,
                   user_data |-> user_data, saved |-> <<>> ]]

Free(i) == ~saving.active /\ ~InFlight(i)

\* start up to `await update.message.reply_text(...)`
co_start(i, u) ==
  /\ Free(i)
  /\ RouteCommand(onb[u], plan[u], "start").handler = "start"
  /\ LET ld == load_user_data(store[filepath(u)])
         r  == Ran("start", "onboarding", u, "start", <<>>)
     IN  IF ld.raised
           THEN Launch(i, u, "raised", [r EXCEPT !.raised = TRUE], END, DefaultData)
         ELSE IF Truthy(ld.data.first_name)
           THEN Launch(i, u, "reply",
                       [r EXCEPT !.replies = <<WelcomeBack(ld.data.first_name.s)>>],
                       start_return(ld.data), ld.data)
         ELSE Launch(i, u, "reply", [r EXCEPT !.replies = <<AskName>>],
                     start_return(ld.data), ld.data)
  /\ UNCHANGED <<store, onb, plan, last, saving, ref>>

\* received_name up to `await update.message.reply_text(...)`
co_received_name(i, u, text) ==
  /\ Free(i)
  /\ RouteText(onb[u], plan[u]).handler = "received_name"
  /\ store' = [store EXCEPT ![filepath(u)] = received_name_file(@, text)]
  /\ ref' = [ref EXCEPT ![u] = received_name_file(@, text)]
  /\ Launch(i, u, "reply",
            [Ran("received_name", "onboarding", u, "", text)
               EXCEPT !.replies = <<NiceToMeet(typed_name(text))>>],
            END, DefaultData)
  /\ UNCHANGED <<onb, plan, last, saving>>

\* cancel up to `await update.message.reply_text(...)`
co_cancel(i, u) ==
  LET rt == RouteCommand(onb[u], plan[u], "cancel")
  IN  /\ Free(i)
      /\ rt.handler = "cancel"
      /\ Launch(i, u, "reply",
                [Ran("cancel", rt.conv, u, "cancel", <<>>)
                   EXCEPT !.replies = <<Cancelled>>],
                END, DefaultData)
      /\ UNCHANGED <<store, onb, plan, last, saving, ref>>

\* create_plan_start up to `await update.message.reply_text(...)`, for
\* /create_plan and for a text in state ASKING_PLAN_TYPE
co_create_plan_start(i, u, cmd, text) ==
  /\ Free(i)
  /\ \/ /\ cmd = "create_plan" /\ text = <<>>
        /\ RouteCommand(onb[u], plan[u], cmd).handler = "create_plan_start"
     \/ /\ cmd = "" /\ text \in Texts
        /\ RouteText(onb[u], plan[u]).handler = "create_plan_start"
  /\ Launch(i, u, "reply",
            [Ran("create_plan_start", "plan", u, cmd, text)
               EXCEPT !.replies = <<PlanPrompt>>],
            ASKING_PLAN_TYPE, DefaultData)
  /\ UNCHANGED <<store, onb, plan, last, saving, ref>>

\* handle_message up to its first await: reply_text at the guard, or
\* send_chat_action with the record loaded
co_handle_message(i, u, text) ==
  /\ Free(i)
  /\ RouteText(onb[u], plan[u]).handler = "handle_message"
  /\ LET ld == load_user_data(store[filepath(u)])
         r  == Ran("handle_message", "none", u, "", text)
     IN  IF ld.raised
           THEN Launch(i, u, "raised", [r EXCEPT !.raised = TRUE], END, DefaultData)
         ELSE IF no_first_name(ld.data)
           THEN Launch(i, u, "reply", [r EXCEPT !.replies = <<UseStart>>], END, ld.data)
         ELSE /\ Len(ld.data.history) + 2 <= MaxConcHistory
              /\ Len(load_user_data(ref[u]).data.history) <= MaxConcHistory
              /\ Launch(i, u, "typing", r, END, ld.data)
  /\ UNCHANGED <<store, onb, plan, last, saving, ref>>

\* (mutant) handle_message loads the record again after send_chat_action
resumed_data_reloaded(i) == load_user_data(store[filepath(tasks[i].user)]).data

\* the user_data handle_message goes on with after send_chat_action: the
\* dict it loaded before the await
resumed_data(i) == tasks[i].user_data

\* handle_message from send_chat_action to `await reply_text(ai_response)`:
\* both appends, the call of the model service and the save
co_handle_message_resume(i, u, outcome) ==
  /\ tasks[i].pc = "typing"
  /\ tasks[i].user = u
  /\ LET c == message_cycle(resumed_data(i), tasks[i].run.text, outcome)
     IN  /\ store' = [store EXCEPT ![filepath(u)] = save_user_data(@, c.user_data)]
         /\ ref' = [ref EXCEPT ![u] =
                      handle_message_file(@, tasks[i].run.text, outcome)]
         /\ tasks' = [tasks EXCEPT ![i].pc = "reply",
                                   ![i].saved = c.user_data.history,
                                   ![i].run = [@ EXCEPT !.replies = <<c.reply>>,
                                                        !.calls = c.calls,
                                                        !.failed = ~outcome.ok,
                                                        !.window = c.window,
                                                        !.request = c.request]]
  /\ UNCHANGED <<onb, plan, last, saving>>

\* the callback returns (or has raised): a conversation takes the state it
\* returned
co_return(i, u) ==
  /\ tasks[i].pc \in {"reply", "raised"}
  /\ tasks[i].user = u
  /\ LET r == tasks[i].run
     IN  /\ onb' = IF r.conv = "onboarding" /\ ~r.raised
                     THEN [onb EXCEPT ![u] = tasks[i].ret] ELSE onb
         /\ plan' = IF r.conv = "plan" /\ ~r.raised
                      THEN [plan EXCEPT ![u] = tasks[i].ret] ELSE plan
  /\ tasks' = [tasks EXCEPT ![i] = NoTask]
  /\ UNCHANGED <<store, last, saving, ref>>

\* the steps of coroutine i, handling an update of user u
Coroutine(i, u) ==
  \/ co_start(i, u)
  \/ \E t \in Texts : co_received_name(i, u, t)
  \/ co_cancel(i, u)
  \/ co_create_plan_start(i, u, "create_plan", <<>>)
  \/ \E t \in Texts : co_create_plan_start(i, u, "", t)
  \/ \E t \in Texts : co_handle_message(i, u, t)
  \/ \E o \in Outcomes : co_handle_message_resume(i, u, o)
  \/ co_return(i, u)

NextConc == \E i \in TaskIds, u \in SeqUsers : Coroutine(i, u)

\* the updates of one user, handled by two coroutines that interleave at
\* their awaits
SpecConc == Init /\ [][NextConc]_vars

\* the coroutine that handles the updates of user u, when those of each user
\* are handled one at a time
TaskOf(u) == IF u = "u1" THEN "t1" ELSE "t2"

NextUsers == \E u \in Users : Coroutine(TaskOf(u), u)

\* the updates of two users, those of each user handled one at a time, the
\* coroutines of the two users interleaving at their awaits
SpecUsers == Init /\ [][NextUsers]_vars

-----------------------------------------------------------------------------
(* Notions the properties use *)

Min(a, b) == IF a <= b THEN a ELSE b

\* the record a well-formed file holds
RecordOf(file) == json_load(file.chunks)

HasRecord(file) == file.exists /\ json_valid(file.chunks)

\* the user has a record with a first name the handlers accept
Onboarded(file) == HasRecord(file) /\ Truthy(RecordOf(file).first_name)

\* seq occurs in text as a contiguous part
Contains(text, seq) ==
  \E i \in 0..(Len(text) - Len(seq)) : SubSeq(text, i + 1, i + Len(seq)) = seq

\* name is text without its leading and trailing whitespace
IsTrimOf(name, text) ==
  /\ name = <<>> \/ (~IsSpace(name[1]) /\ ~IsSpace(name[Len(name)]))
  /\ \E i \in 0..Len(text) :
       /\ i + Len(name) <= Len(text)
       /\ SubSeq(text, i + 1, i + Len(name)) = name
       /\ \A k \in 1..Len(text) :
            (k <= i \/ k > i + Len(name)) => IsSpace(text[k])

\* the step just taken ran the message cycle of handle_message for user u
ExchangeStep(u) ==
  /\ last'.op = "handle_message"
  /\ last'.user = u
  /\ last'.calls = 1
  /\ vars' # vars

-----------------------------------------------------------------------------
(* C1 *)

\* C1: processing one message at a time, a handle_message exchange for an
\* onboarded user with no dialog session open extends the persisted history
\* by exactly two turns, the user turn holding the message and then one
\* assistant turn holding the reply, and changes neither the earlier turns
\* nor first_name.
C1_ExchangeAppendsTwoTurns ==
  [][\A u \in Users :
       (/\ Onboarded(store[u])
        /\ onb[u] = END /\ plan[u] = END
        /\ last'.op = "handle_message" /\ last'.user = u
        /\ ~last'.raised)
       => /\ HasRecord(store'[u])
          /\ Len(last'.replies) = 1
          /\ RecordOf(store'[u]).first_name = RecordOf(store[u]).first_name
          /\ Len(RecordOf(store'[u]).history) = Len(RecordOf(store[u]).history) + 2
          /\ RecordOf(store'[u]).history =
               RecordOf(store[u]).history
                 \o << Turn("user", last'.text),
                       Turn("assistant", last'.replies[1]) >>
    ]_vars

\* an exchange has completed on top of earlier turns
C1_Witness ==
  /\ last.op = "handle_message"
  /\ last.calls = 1
  /\ HasRecord(store[last.user])
  /\ Len(RecordOf(store[last.user]).history) >= 4

-----------------------------------------------------------------------------
(* C2 *)

\* C2 as the spec states it: with at least 12 persisted turns, the request
\* holds the 12 most recent persisted turns and then the new user turn,
\* 13 conversation turns after the system instruction.
C2_ThirteenTurnsSent ==
  [][\A u \in Users :
       (ExchangeStep(u) /\ Len(RecordOf(store[u]).history) >= CONVERSATION_MEMORY_LENGTH)
       => /\ Len(last'.request) = 1 + 13
          /\ Tail(last'.request) =
               LastN(RecordOf(store[u]).history, 12)
                 \o << Turn("user", last'.text) >>
    ]_vars

\* C2, amended: with at least 12 persisted turns, the request holds the 11
\* most recent persisted turns and then the new user turn, 12 conversation
\* turns after the system instruction.
C2_TwelveTurnsSent ==
  [][\A u \in Users :
       (ExchangeStep(u) /\ Len(RecordOf(store[u]).history) >= CONVERSATION_MEMORY_LENGTH)
       => LET old == RecordOf(store[u]).history
          IN  /\ Len(last'.request) = 1 + 12
              /\ last'.request[1].role = "system"
              /\ Tail(last'.request) =
                   SubSeq(old, Len(old) - 10, Len(old))
                     \o << Turn("user", last'.text) >>
    ]_vars

\* a message was answered on top of at least 12 persisted turns
C2_Witness ==
  /\ last.op = "handle_message"
  /\ last.calls = 1
  /\ Len(RecordOf(store[last.user]).history) >= CONVERSATION_MEMORY_LENGTH + 2

-----------------------------------------------------------------------------
(* C3 *)

\* the last min(Len(h), 12) elements of h, in order
IsWindowOf(w, h) ==
  LET m == Min(Len(h), 12)
  IN  /\ Len(w) = m
      /\ \A i \in 1..m : w[i] = h[Len(h) - m + i]

\* C3: the slice handed to the model is the last min(L, 12) elements, in
\* order, of the history of length L it is taken from (checked for the
\* history of the exchange and for the slice of each of its prefixes), and
\* the history persisted afterwards still starts with all L of them.
C3_WindowBound ==
  [][\A u \in Users :
       (ExchangeStep(u) /\ HasRecord(store[u]))
       => LET h1  == Append(RecordOf(store[u]).history, Turn("user", last'.text))
              new == RecordOf(store'[u]).history
          IN  /\ IsWindowOf(last'.window, h1)
              /\ \A k \in 0..Len(h1) :
                   IsWindowOf(LastN(SubSeq(h1, 1, k), CONVERSATION_MEMORY_LENGTH),
                              SubSeq(h1, 1, k))
              /\ Len(new) > Len(h1)
              /\ SubSeq(new, 1, Len(h1)) = h1
    ]_vars

\* a window was cut from a history longer than the window
C3_Witness ==
  /\ last.op = "handle_message"
  /\ last.calls = 1
  /\ Len(last.window) = CONVERSATION_MEMORY_LENGTH
  /\ Len(RecordOf(store[last.user]).history) > CONVERSATION_MEMORY_LENGTH + 1

-----------------------------------------------------------------------------
(* C4 *)

\* what C4 says of the record and the reply after received_name
NameStored(u) ==
  /\ HasRecord(store[u])
  /\ ~RecordOf(store[u]).first_name.isNone
  /\ IsTrimOf(RecordOf(store[u]).first_name.s, last.text)
  /\ RecordOf(store[u]).history = <<>>
  /\ Len(last.replies) = 1
  /\ Contains(last.replies[1], RecordOf(store[u]).first_name.s)
  /\ Contains(last.replies[1], <<"Nice to meet you, ">>)
  /\ onb[u] = END

-----------------------------------------------------------------------------
(* C5 *)

\* C5: a persisted record without a first name (None, or the empty string
\* the handlers treat alike) has an empty history.
C5_NoNameNoHistory ==
  \A u \in Users :
    (HasRecord(store[u]) /\ ~Truthy(RecordOf(store[u]).first_name))
      => RecordOf(store[u]).history = <<>>

\* a text reached handle_message for a user whose record has no first name
C5_Witness ==
  /\ last.op = "handle_message"
  /\ last.replies = <<UseStart>>
  /\ HasRecord(store[last.user])
  /\ ~Truthy(RecordOf(store[last.user]).first_name)

-----------------------------------------------------------------------------
(* C6 *)

\* C6: when the call to the model service fails, the reply is exactly the
\* apology, nothing is raised, and the persisted history ends with the user
\* turn and an assistant turn holding the apology.
C6_FallbackReply ==
  (last.op = "handle_message" /\ last.failed)
    => LET h == RecordOf(store[last.user]).history
       IN  /\ ~last.raised
           /\ last.replies =
                << << "Apologies, my systems are under a bit of strain right now. Please try your query again in a moment." >> >>
           /\ HasRecord(store[last.user])
           /\ Len(h) >= 2
           /\ h[Len(h) - 1] = Turn("user", last.text)
           /\ h[Len(h)] = Turn("assistant", last.replies[1])

\* the model service has failed on a message
C6_Witness ==
  /\ last.op = "handle_message"
  /\ last.failed
  /\ last.calls = 1

-----------------------------------------------------------------------------
(* C7 *)

\* the file of user u is there and json.load does not accept it
Unreadable(u) == store[u].exists /\ ~json_valid(store[u].chunks)

\* C7: start and handle_message, run for a user whose stored record is
\* unreadable, raise nothing and go on as for a new user: start asks for the
\* name and opens the onboarding session, handle_message asks for /start.
C7_UnreadableIsNewUser ==
  (~saving.active /\ last.op \in {"start", "handle_message"} /\ Unreadable(last.user))
    => /\ ~last.raised
       /\ last.op = "start"
            => (last.replies = <<AskName>> /\ onb[last.user] = ASKING_NAME)
       /\ last.op = "handle_message" => last.replies = <<UseStart>>

-----------------------------------------------------------------------------
(* C10 *)

\* C10: after the process has stopped during a save, the user's file holds
\* the complete record it held before the save or the complete new record.
C10_SaveAtomicOnCrash ==
  last.op = "crash"
    => \/ store[saving.user] = saving.old
       \/ store[saving.user] = save_user_data(saving.old, saving.data)

-----------------------------------------------------------------------------
(* C8 *)

\* coroutines i and j have both answered a message of the same user, each
\* from the record it loaded before the other one saved
BothAnsweredFromSameRecord(i, j) ==
  /\ i # j
  /\ tasks[i].pc = "reply" /\ tasks[i].run.calls = 1
  /\ tasks[j].pc = "reply" /\ tasks[j].run.calls = 1
  /\ tasks[i].user = tasks[j].user
  /\ tasks[i].user_data = tasks[j].user_data

\* C8: when two handle_message coroutines of one user have both loaded the
\* record before either saved, then once both have saved and replied the
\* persisted history is the one of the coroutine that saved last: the loaded
\* history and the two turns of one exchange only.
C8_LostUpdate ==
  \A i, j \in TaskIds :
    BothAnsweredFromSameRecord(i, j)
      => LET h == RecordOf(store[tasks[i].user]).history
         IN  /\ Len(tasks[i].run.replies) = 1 /\ Len(tasks[j].run.replies) = 1
             /\ h \in {tasks[i].saved, tasks[j].saved}
             /\ Len(h) = Len(tasks[i].user_data.history) + 2

\* both exchanges are done and both replies sent, yet the persisted history
\* holds the turns of one of them
C8_Witness ==
  \E i, j \in TaskIds :
    /\ BothAnsweredFromSameRecord(i, j)
    /\ tasks[i].run.replies # <<>> /\ tasks[j].run.replies # <<>>
    /\ Len(RecordOf(store[tasks[i].user]).history)
         = Len(tasks[i].user_data.history) + 2

-----------------------------------------------------------------------------
(* C9 *)

\* the user whose coroutine took the step, when exactly coroutine i did
StepOf(i) ==
  IF tasks[i].pc \in {"typing", "reply", "raised"} THEN tasks[i].user
  ELSE tasks'[i].user

\* C9: with the coroutines of two users interleaving, a step changes the
\* record or a dialog session of a user only when it is a step of that
\* user's own coroutine, and each user's record is at all times the one that
\* user's updates produce when handled alone.
C9_UsersIndependent ==
  /\ [](\A u \in Users : store[u] = ref[u])
  /\ [][\A b \in Users :
          (store'[b] # store[b] \/ onb'[b] # onb[b] \/ plan'[b] # plan[b])
            => \E i \in TaskIds :
                 /\ tasks'[i] # tasks[i]
                 /\ \A j \in TaskIds \ {i} : tasks'[j] = tasks[j]
                 /\ StepOf(i) = b
      ]_vars

\* a user has completed an exchange while the handler of the other user
\* was waiting between its load and its save
C9_Witness ==
  /\ tasks["t1"].pc = "typing" /\ tasks["t1"].user = "u1"
  /\ tasks["t2"].pc = "reply" /\ tasks["t2"].user = "u2"
  /\ tasks["t2"].run.calls = 1
  /\ RecordOf(store["u2"]).history # <<>>
  /\ HasRecord(store["u1"])

-----------------------------------------------------------------------------
(* C11 *)

\* h is empty, or starts with a user turn and alternates user, assistant
Alternates(h) ==
  \A k \in 1..Len(h) :
    h[k].role = (IF k % 2 = 1 THEN "user" ELSE "assistant")

\* C11: in every reachable state every persisted history is empty or starts
\* with a user turn and strictly alternates user, assistant, so that no two
\* consecutive persisted turns share a role; checked with two handlers of
\* the same user interleaved at their awaits (SpecConc), whose runs with one
\* coroutine in flight at a time are the sequential ones
C11_HistoryAlternates ==
  \A u \in Users :
    HasRecord(store[u]) =>
      LET h == RecordOf(store[u]).history
      IN  /\ Alternates(h)
          /\ \A k \in 1..(Len(h) - 1) : h[k].role # h[k + 1].role

\* two handle_message runs of one user have both saved, the later save
\* replacing what the earlier one wrote, and four turns are persisted
C11_Witness ==
  \E i, j \in TaskIds :
    /\ i # j
    /\ tasks[i].pc = "reply" /\ tasks[i].run.op = "handle_message"
    /\ tasks[j].pc = "reply" /\ tasks[j].run.op = "handle_message"
    /\ tasks[i].user = tasks[j].user
    /\ tasks[i].run.calls = 1 /\ tasks[j].run.calls = 1
    /\ tasks[i].saved # tasks[j].saved
    /\ HasRecord(store[tasks[j].user])
    /\ RecordOf(store[tasks[j].user]).history = tasks[j].saved
    /\ Len(tasks[j].saved) = 4

-----------------------------------------------------------------------------
(* C12 *)

\* C12: every request sent to the model service has exactly one system
\* entry, which is its first entry, followed only by user and assistant
\* entries, the last of which is the user turn holding the message being
\* answered; and no persisted history holds a turn with role system
C12_OneSystemEntryFirst ==
  /\ last.calls > 0 =>
       LET req == last.request
       IN  /\ Len(req) >= 2
           /\ req[1].role = "system"
           /\ Cardinality({k \in 1..Len(req) : req[k].role = "system"}) = 1
           /\ \A k \in 2..Len(req) : req[k].role \in {"user", "assistant"}
           /\ req[Len(req)] = Turn("user", last.text)
  /\ \A u \in Users :
       HasRecord(store[u]) =>
         \A k \in 1..Len(RecordOf(store[u]).history) :
           RecordOf(store[u]).history[k].role # "system"

\* a request with the system entry and a full window of twelve turns has
\* been sent
C12_Witness ==
  /\ last.op = "handle_message"
  /\ last.calls > 0
  /\ Len(last.request) = CONVERSATION_MEMORY_LENGTH + 1
  /\ last.request[2].role = "assistant"

-----------------------------------------------------------------------------
(* C13 *)

\* C13: a /start from a user whose record already has a first_name (one the
\* handlers accept) is answered with the welcome-back message containing
\* that name, leaves the persisted record unchanged and opens no onboarding
\* session: the user's next text is not consumed as a name
C13_StartOfKnownUser ==
  [][\A u \in Users :
       (Onboarded(store[u]) /\ last'.cmd = "start" /\ last'.user = u)
         => /\ last'.op = "start"
            /\ last'.replies = <<WelcomeBack(RecordOf(store[u]).first_name.s)>>
            /\ Contains(last'.replies[1], RecordOf(store[u]).first_name.s)
            /\ store' = store
            /\ onb'[u] = END
            /\ plan' = plan
            /\ RouteText(onb'[u], plan'[u]).handler # "received_name"]_vars

\* a user with a name and two exchanges on record has sent /start and has
\* been welcomed back
C13_Witness ==
  /\ last.op = "start"
  /\ Onboarded(store[last.user])
  /\ Len(RecordOf(store[last.user]).history) = 4
  /\ last.replies = <<WelcomeBack(RecordOf(store[last.user]).first_name.s)>>
  /\ onb[last.user] = END

-----------------------------------------------------------------------------
(* C14 *)

\* C14: handle_message invoked for a user with no record, or with a record
\* without a first_name, replies with the instruction to use /start and
\* nothing else: no model call, nothing written, no session opened
C14_GuardOnlyInstructs ==
  [][\A u \in Users :
       (~Onboarded(store[u]) /\ last'.op = "handle_message" /\ last'.user = u)
         => /\ last'.replies = <<UseStart>>
            /\ last'.calls = 0
            /\ last'.request = <<>>
            /\ ~last'.raised
            /\ store' = store
            /\ onb' = onb
            /\ plan' = plan]_vars

\* handle_message has turned away a user whose record holds an empty name
C14_Witness ==
  /\ last.op = "handle_message"
  /\ last.replies = <<UseStart>>
  /\ last.calls = 0
  /\ HasRecord(store[last.user])
  /\ RecordOf(store[last.user]) = [first_name |-> Str(<<>>), history |-> <<>>]

-----------------------------------------------------------------------------
(* C15 *)

\* C15: each text that enters the active message cycle causes exactly one
\* invocation of the model service, whether the invocation succeeds or
\* fails (no retry); /start, the name collection, /cancel, /create_plan, the
\* plan stub, an unhandled command and the guard path of handle_message
\* cause none
C15_OneCallPerActiveText ==
  [][\A u \in Users :
       (last'.user = u /\ last'.op # "init")
         => IF last'.op = "handle_message" /\ Onboarded(store[u])
              THEN /\ last'.calls = 1
                   /\ Len(last'.request) >= 2
              ELSE /\ last'.calls = 0
                   /\ last'.request = <<>>
                   /\ ~last'.failed]_vars

\* a text of an active user has been answered with the service failing, the
\* third exchange on record
C15_Witness ==
  /\ last.op = "handle_message"
  /\ last.failed
  /\ last.calls = 1
  /\ HasRecord(store[last.user])
  /\ Len(RecordOf(store[last.user]).history) = 6

-----------------------------------------------------------------------------
(* C16 *)

\* C16: no command event, in any state, creates or modifies the persisted
\* record; in particular a command sent by a user who is in AWAITING_NAME and
\* has no record leaves that user without a record
C16_CommandsWriteNothing ==
  [][last'.cmd # ""
       => /\ last'.cmd \in Commands
          /\ store' = store
          /\ \A u \in Users :
               (last'.user = u /\ onb[u] = ASKING_NAME /\ ~store[u].exists)
                 => ~store'[u].exists]_vars

\* a user asked for a name has sent /create_plan and still has no record
C16_Witness ==
  /\ last.cmd = "create_plan"
  /\ last.op = "create_plan_start"
  /\ onb[last.user] = ASKING_NAME
  /\ ~store[last.user].exists

-----------------------------------------------------------------------------
(* C17 *)

\* C17: after /cancel has been handled for a user with any dialog session
\* open (onboarding, plan creation, or both at once after /start followed by
\* /create_plan), the user has received one cancellation notice and has no
\* dialog session left open
C17_CancelClosesEverySession ==
  last.op = "cancel"
    => /\ last.replies = <<Cancelled>>
       /\ onb[last.user] = END
       /\ plan[last.user] = END

-----------------------------------------------------------------------------
(* C18 *)

\* the characters the Username Protocol of SYSTEM_PROMPT uses for the name
Placeholder == <<"{user_name}">>

\* C18: the system instruction sent with a request depends on the user's
\* name n only: it is the fixed template with n substituted for every
\* user-name placeholder, concatenated with the fixed rule set, so that no
\* unsubstituted placeholder remains in it, and compiling it again for the
\* same n gives the same text
C18_NoPlaceholderLeft ==
  last.calls > 0
    => LET n   == RecordOf(store[last.user]).first_name.s
           sys == last.request[1].content
       IN  /\ sys = system_message(n).content
           /\ Contains(sys, n)
           /\ ~Contains(sys, Placeholder)

-----------------------------------------------------------------------------
(* C19 *)

\* g starts with h
IsPrefix(h, g) == Len(h) <= Len(g) /\ SubSeq(g, 1, Len(h)) = h

\* C19: with the events handled one after the other the record only grows:
\* each newly persisted history has the previous one as a prefix, and once
\* received_name has run for a user (the user has a record) no later event
\* returns that user to AWAITING_NAME or overwrites first_name
C19_RecordOnlyGrows ==
  [][\A u \in Users :
       HasRecord(store[u])
         => /\ HasRecord(store'[u])
            /\ IsPrefix(RecordOf(store[u]).history, RecordOf(store'[u]).history)
            /\ RecordOf(store'[u]).first_name = RecordOf(store[u]).first_name
            /\ onb'[u] # ASKING_NAME]_vars

-----------------------------------------------------------------------------
(* C20 *)

\* C20: while a user's plan-creation session is in AWAITING_PLAN_TYPE and no
\* onboarding session is open for the user, every non-command text of the
\* user is consumed by the stub create_plan_start: its prompt is sent again,
\* the session stays in AWAITING_PLAN_TYPE, handle_message does not run, no
\* model call is made and the record is unchanged; only /cancel ends the
\* session, after which texts go to the message cycle again
C20_PlanStubConsumesTexts ==
  [][\A u \in Users :
       plan[u] = ASKING_PLAN_TYPE
         => /\ (onb[u] = END /\ last'.user = u /\ last'.cmd = ""
                               /\ last'.op # "init")
                 => /\ last'.op = "create_plan_start"
                    /\ last'.conv = "plan"
                    /\ last'.replies = <<PlanPrompt>>
                    /\ plan'[u] = ASKING_PLAN_TYPE
                    /\ last'.calls = 0
                    /\ last'.request = <<>>
                    /\ store' = store
                    /\ onb' = onb
            /\ plan'[u] # ASKING_PLAN_TYPE
                 => /\ last'.op = "cancel"
                    /\ last'.conv = "plan"
                    /\ last'.user = u
                    /\ plan'[u] = END
                    /\ RouteText(onb'[u], plan'[u]).handler = "handle_message"]_vars

\* a text of an active user with one exchange on record has been taken by
\* the plan stub
C20_Witness ==
  /\ last.op = "create_plan_start"
  /\ last.cmd = ""
  /\ last.text # <<>>
  /\ last.replies = <<PlanPrompt>>
  /\ plan[last.user] = ASKING_PLAN_TYPE
  /\ onb[last.user] = END
  /\ Onboarded(store[last.user])
  /\ Len(RecordOf(store[last.user]).history) = 2

====
